---- MODULE Spec2Model ----
(***************************************************************************)
(* Model of kathara_checker_scoring: the configuration validation of       *)
(* models.ScoringConfig, the record/group matching and the validation gate *)
(* of scoring.score, the six GroupType formulas, the aggregation           *)
(* properties of GroupResult / CategoryResult / ScoringResult, and the     *)
(* report of scoring.format_result.                                        *)
(*                                                                         *)
(* Python numbers (int | float) are modelled as exact rationals that carry *)
(* their Python type: [f |-> is a float, n |-> numerator, d |-> denom].    *)
(* Floats are therefore exact here; IEEE rounding of the last bit is not   *)
(* modelled.  d = 0 is used for the two non-numbers: math.nan and the      *)
(* ZeroDivisionError a division by zero raises.                            *)
(* Strings (names) are modelled as small integers; descriptions and        *)
(* patterns as sequences of characters, a pattern being a literal regex.   *)
(***************************************************************************)
EXTENDS Integers, Sequences, FiniteSets, TLC

VARIABLES
    config,     \* the categories handed to ScoringConfig(...), in order
    records,    \* the list of LabResultRecord handed to score
    pc,         \* position of the run: input, configured, config_error,
                \* scored, score_error, formatted
    error,      \* message of the ValueError raised so far ("" when none)
    result,     \* what score produced: a ScoringResult or the ValueError
    show_all,   \* the show_all argument of format_result
    lines       \* the lines format_result returned

vars == <<config, records, pc, error, result, show_all, lines>>

----------------------------------------------------------------------------
(* Bounds of the explored inputs *)

MaxCategories == 2   \* categories of a raw configuration (shape family)
MaxGroups == 2       \* check groups of one raw category (shape family)
MaxMatchGroups == 3  \* check groups of a configuration (matching family)
MaxMatchRecords == 3 \* records of a run (matching family)
MaxGroupRecords == 3 \* records matched by the single group (formula family)
MaxTreeGroups == 2   \* check groups of a configuration (tree family)

----------------------------------------------------------------------------
(* Python numbers *)

RECURSIVE GCD(_, _)
GCD(a, b) == IF b = 0 THEN a ELSE GCD(b, a % b)

Abs(x) == IF x < 0 THEN -x ELSE x

\* a number of Python type float (isFloat) or int, value n/d in lowest terms
Num(isFloat, n, d) ==
    LET g == GCD(Abs(n), d)
    IN  [f |-> isFloat, n |-> n \div g, d |-> d \div g]

PyInt(n) == [f |-> FALSE, n |-> n, d |-> 1]
PyFloat(n, d) == Num(TRUE, n, d)

NaN == [f |-> TRUE, n |-> 0, d |-> 0]
ZeroDivisionError == [f |-> TRUE, n |-> 1, d |-> 0]

IsNumber(x) == x.d > 0
IsIntegral(x) == x.d = 1

\* a * b, a + b: float as soon as one operand is a float
Mul(a, b) == Num(a.f \/ b.f, a.n * b.n, a.d * b.d)
Add(a, b) == Num(a.f \/ b.f, a.n * b.d + b.n * a.d, a.d * b.d)

\* a / b: always a float; raises on b == 0
TrueDiv(a, b) ==
    IF b.n = 0 THEN ZeroDivisionError
    ELSE IF b.n > 0 THEN Num(TRUE, a.n * b.d, a.d * b.n)
    ELSE Num(TRUE, -(a.n * b.d), a.d * (-b.n))

EqZero(x) == x.n = 0 /\ x.d > 0
NumEq(a, b) == a.n * b.d = b.n * a.d
NumLeq(a, b) == a.n * b.d <= b.n * a.d

\* math.floor(x): an int
Floor(x) == PyInt(x.n \div x.d)

\* round(x): an int, ties go to the even neighbour
Round(x) ==
    LET q == x.n \div x.d
        r == x.n - q * x.d
    IN  IF 2 * r < x.d THEN PyInt(q)
        ELSE IF 2 * r > x.d THEN PyInt(q + 1)
        ELSE IF q % 2 = 0 THEN PyInt(q) ELSE PyInt(q + 1)

\* sum(xs): starts from the int 0 and adds left to right
RECURSIVE SumFrom(_, _, _)
SumFrom(acc, xs, i) ==
    IF i > Len(xs) THEN acc ELSE SumFrom(Add(acc, xs[i]), xs, i + 1)

Sum(xs) == SumFrom(PyInt(0), xs, 1)

RECURSIVE SumNatFrom(_, _, _)
SumNatFrom(acc, xs, i) ==
    IF i > Len(xs) THEN acc ELSE SumNatFrom(acc + xs[i], xs, i + 1)

SumNat(xs) == SumNatFrom(0, xs, 1)

----------------------------------------------------------------------------
(* models.py *)

\* calc_percentage(part, whole)
calc_percentage_nonzero(part, whole) == Mul(TrueDiv(part, whole), PyFloat(100, 1))

\* calc_percentage reporting 0% where nothing can be earned
calc_percentage_zero(part, whole) ==
    IF EqZero(whole) THEN PyFloat(0, 1) ELSE calc_percentage_nonzero(part, whole)

calc_percentage(part, whole) ==
    IF EqZero(whole) THEN NaN ELSE calc_percentage_nonzero(part, whole)

GroupType == {"each", "linear", "linear_rounded", "linear_floored", "all", "any"}

\* sum(1 for rec in records if rec.passed)
RECURSIVE CountPassedFrom(_, _)
CountPassedFrom(recs, i) ==
    IF i > Len(recs) THEN 0
    ELSE (IF recs[i].passed THEN 1 ELSE 0) + CountPassedFrom(recs, i + 1)

count_passed(recs) == CountPassedFrom(recs, 1)

\* calculate_earned_points whose ALL branch tests what the ANY branch tests
calculate_earned_points_all_as_any(type, group_points, recs) ==
    CASE type = "each" -> Mul(group_points, PyInt(count_passed(recs)))
      [] type \in {"linear", "linear_rounded", "linear_floored"} ->
            IF Len(recs) = 0 THEN ZeroDivisionError
            ELSE LET earned == Mul(TrueDiv(PyInt(count_passed(recs)), PyInt(Len(recs))),
                                   group_points)
                 IN  IF type = "linear_rounded" THEN Round(earned)
                     ELSE IF type = "linear_floored" THEN Floor(earned)
                     ELSE earned
      [] type \in {"all", "any"} ->
            IF count_passed(recs) >= 1 THEN group_points ELSE PyInt(0)

\* GroupType.calculate_earned_points(self, group_points, records)
calculate_earned_points(type, group_points, recs) ==
    CASE type = "each" -> Mul(group_points, PyInt(count_passed(recs)))
      [] type \in {"linear", "linear_rounded", "linear_floored"} ->
            IF Len(recs) = 0 THEN ZeroDivisionError
            ELSE LET earned == Mul(TrueDiv(PyInt(count_passed(recs)), PyInt(Len(recs))),
                                   group_points)
                 IN  IF type = "linear_rounded" THEN Round(earned)
                     ELSE IF type = "linear_floored" THEN Floor(earned)
                     ELSE earned
      [] type = "all" ->
            IF count_passed(recs) = Len(recs) THEN group_points ELSE PyInt(0)
      [] type = "any" ->
            IF count_passed(recs) >= 1 THEN group_points ELSE PyInt(0)

\* GroupType.calculate_max_points(self, group_points, records)
calculate_max_points(type, group_points, recs) ==
    CASE type = "each" -> Mul(group_points, PyInt(Len(recs)))
      [] type \in {"linear", "linear_rounded", "linear_floored"} -> group_points
      [] type \in {"all", "any"} -> group_points

\* re.Pattern.match for a literal pattern: the pattern must be found at
\* position 0 of the text and need not consume it
RegexMatch(pattern, text) ==
    /\ Len(pattern) <= Len(text)
    /\ \A i \in 1..Len(pattern) : text[i] = pattern[i]

\* CheckGroup.matches(self, record)
matches(group, record) == RegexMatch(group.description_regex, record.description)

\* ScoringConfig.groups: the check groups of all categories, flattened in
\* configuration order; a CheckGroup's category attribute refers to its
\* owning category (its position, name and multiplier)
RECURSIVE GroupsFrom(_, _)
GroupsFrom(categories, i) ==
    IF i > Len(categories) THEN <<>>
    ELSE [j \in 1..Len(categories[i].groups) |->
              [name |-> categories[i].groups[j].name,
               type |-> categories[i].groups[j].type,
               description_regex |-> categories[i].groups[j].description_regex,
               points |-> categories[i].groups[j].points,
               category |-> [index |-> i,
                             name |-> categories[i].name,
                             points_multiplier |-> categories[i].points_multiplier]]]
         \o GroupsFrom(categories, i + 1)

ScoringConfig_groups(categories) == GroupsFrom(categories, 1)

\* category.groups, as CheckGroup objects
GroupCategory_groups(categories, i) ==
    SelectSeq(ScoringConfig_groups(categories), LAMBDA g : g.category.index = i)

\* len({x.name for x in xs})
NameCount(xs) == Cardinality({xs[i].name : i \in 1..Len(xs)})

\* __post_init__ without its last check
ScoringConfig_post_init_no_empty_check(categories) ==
    IF NameCount(categories) # Len(categories)
    THEN "Group category names must be unique"
    ELSE IF \E i \in 1..Len(categories) :
               NameCount(categories[i].groups) # Len(categories[i].groups)
    THEN "Check group names within categories must be unique"
    ELSE ""

\* ScoringConfig.__post_init__: "" when construction succeeds, else the
\* message of the ValueError
ScoringConfig_post_init(categories) ==
    IF NameCount(categories) # Len(categories)
    THEN "Group category names must be unique"
    ELSE IF \E i \in 1..Len(categories) :
               NameCount(categories[i].groups) # Len(categories[i].groups)
    THEN "Check group names within categories must be unique"
    ELSE IF \E i \in 1..Len(categories) : Len(categories[i].groups) = 0
    THEN "Each category must contain at least one check group"
    ELSE ""

\* GroupResult: [group |-> CheckGroup, records |-> list of LabResultRecord]
GroupResult_total_checks_count(gr) == Len(gr.records)

GroupResult_passed_checks_count(gr) == count_passed(gr.records)

GroupResult_failed_check_count(gr) ==
    GroupResult_total_checks_count(gr) - GroupResult_passed_checks_count(gr)

\* self.group.points * self.group.category.points_multiplier
GroupPoints(gr) == Mul(gr.group.points, gr.group.category.points_multiplier)

GroupResult_max_points(gr) ==
    calculate_max_points(gr.group.type, GroupPoints(gr), gr.records)

GroupResult_earned_points(gr) ==
    calculate_earned_points(gr.group.type, GroupPoints(gr), gr.records)

GroupResult_earned_points_percentage(gr) ==
    calc_percentage(GroupResult_earned_points(gr), GroupResult_max_points(gr))

\* CategoryResult: [category |-> GroupCategory, groups |-> list of GroupResult]
CategoryResult_total_checks_count(cr) ==
    SumNat([i \in 1..Len(cr.groups) |-> GroupResult_total_checks_count(cr.groups[i])])

CategoryResult_passed_checks_count(cr) ==
    SumNat([i \in 1..Len(cr.groups) |-> GroupResult_passed_checks_count(cr.groups[i])])

\* failed_check_count summing the total counts of the groups
CategoryResult_failed_check_count_totals(cr) ==
    SumNat([i \in 1..Len(cr.groups) |-> GroupResult_total_checks_count(cr.groups[i])])

CategoryResult_failed_check_count(cr) ==
    SumNat([i \in 1..Len(cr.groups) |-> GroupResult_failed_check_count(cr.groups[i])])

CategoryResult_max_points(cr) ==
    Sum([i \in 1..Len(cr.groups) |-> GroupResult_max_points(cr.groups[i])])

CategoryResult_earned_points(cr) ==
    Sum([i \in 1..Len(cr.groups) |-> GroupResult_earned_points(cr.groups[i])])

CategoryResult_earned_points_percentage(cr) ==
    calc_percentage(CategoryResult_earned_points(cr), CategoryResult_max_points(cr))

\* ScoringResult: [categories |-> list of CategoryResult]
ScoringResult_total_checks_count(sr) ==
    SumNat([i \in 1..Len(sr.categories) |->
                CategoryResult_total_checks_count(sr.categories[i])])

ScoringResult_passed_checks_count(sr) ==
    SumNat([i \in 1..Len(sr.categories) |->
                CategoryResult_passed_checks_count(sr.categories[i])])

ScoringResult_failed_check_count(sr) ==
    SumNat([i \in 1..Len(sr.categories) |->
                CategoryResult_failed_check_count(sr.categories[i])])

ScoringResult_max_points(sr) ==
    Sum([i \in 1..Len(sr.categories) |-> CategoryResult_max_points(sr.categories[i])])

ScoringResult_earned_points(sr) ==
    Sum([i \in 1..Len(sr.categories) |-> CategoryResult_earned_points(sr.categories[i])])

ScoringResult_earned_points_percentage(sr) ==
    calc_percentage(ScoringResult_earned_points(sr), ScoringResult_max_points(sr))

----------------------------------------------------------------------------
(* scoring.py *)

\* A dict is modelled as the sequence of its items [key, val] in insertion
\* order; keys are compared structurally, as dataclass equality does.
DictHas(d, key) == \E i \in 1..Len(d) : d[i].key = key

DictGet(d, key) == d[CHOOSE i \in 1..Len(d) : d[i].key = key].val

\* {key: [] for key in keys}: a key met again replaces its own entry
RECURSIVE DictOfEmptyLists(_, _)
DictOfEmptyLists(keys, i) ==
    IF i = 0 THEN <<>>
    ELSE LET d == DictOfEmptyLists(keys, i - 1)
         IN  IF DictHas(d, keys[i]) THEN d
             ELSE Append(d, [key |-> keys[i], val |-> <<>>])

\* d[key].append(v)
DictAppend(d, key, v) ==
    [i \in 1..Len(d) |->
        IF d[i].key = key THEN [key |-> key, val |-> Append(d[i].val, v)] ELSE d[i]]

\* RecordGroupMatching.create: the double loop, groups outside, records inside;
\* step p visits group (p-1) \div R + 1 and record (p-1) % R + 1
RECURSIVE MatchingLoop(_, _, _, _)
MatchingLoop(matching, groups, recs, p) ==
    IF p > Len(groups) * Len(recs) THEN matching
    ELSE LET group == groups[((p - 1) \div Len(recs)) + 1]
             record == recs[((p - 1) % Len(recs)) + 1]
             next == IF matches(group, record)
                     THEN [record_to_groups |->
                               DictAppend(matching.record_to_groups, record, group),
                           group_to_records |->
                               DictAppend(matching.group_to_records, group, record)]
                     ELSE matching
         IN  MatchingLoop(next, groups, recs, p + 1)

RecordGroupMatching_create(categories, recs) ==
    LET groups == ScoringConfig_groups(categories)
    IN  MatchingLoop([record_to_groups |-> DictOfEmptyLists(recs, Len(recs)),
                      group_to_records |-> DictOfEmptyLists(groups, Len(groups))],
                     groups, recs, 1)

\* the keys of dict items, in their order
Keys(items) == [i \in 1..Len(items) |-> items[i].key]

records_matching_multiple_groups(matching) ==
    Keys(SelectSeq(matching.record_to_groups, LAMBDA item : Len(item.val) > 1))

records_without_group(matching) ==
    Keys(SelectSeq(matching.record_to_groups, LAMBDA item : Len(item.val) = 0))

\* groups_without_records reading the other dict
groups_without_records_other_dict(matching) ==
    Keys(SelectSeq(matching.record_to_groups, LAMBDA item : Len(item.val) = 0))

groups_without_records(matching) ==
    Keys(SelectSeq(matching.group_to_records, LAMBDA item : Len(item.val) = 0))

\* What score hands back: the ScoringResult (raised = ""), or the ValueError
\* it raised with the values its message is built from.
Returned(categoryResults) ==
    [raised |-> "", record |-> <<>>, groups |-> <<>>, group |-> <<>>,
     categories |-> categoryResults]

Raised(message, record, groups, group) ==
    [raised |-> message, record |-> record, groups |-> groups, group |-> group,
     categories |-> <<>>]

MultipleGroupsError == "Some CSV records match multiple check groups, for example: {record} -> {groups}"
WithoutGroupError == "Some CSV records didn't match any check groups, for example: {record}"
WithoutRecordsError == "Some check groups didn't match any CSV records, for example: {group}"

create_group_result(matching, group) ==
    [group |-> group, records |-> DictGet(matching.group_to_records, group)]

create_category_result(matching, categories, i) ==
    LET groups == GroupCategory_groups(categories, i)
    IN  [category |-> [index |-> i,
                       name |-> categories[i].name,
                       points_multiplier |-> categories[i].points_multiplier],
         groups |-> [j \in 1..Len(groups) |-> create_group_result(matching, groups[j])]]

\* score(config, records)
score(categories, recs) ==
    LET matching == RecordGroupMatching_create(categories, recs)
        multiple_groups == records_matching_multiple_groups(matching)
        without_group == records_without_group(matching)
        without_records == groups_without_records(matching)
    IN  IF Len(multiple_groups) > 0
        THEN Raised(MultipleGroupsError, <<multiple_groups[1]>>,
                    DictGet(matching.record_to_groups, multiple_groups[1]), <<>>)
        ELSE IF Len(without_group) > 0
        THEN Raised(WithoutGroupError, <<without_group[1]>>, <<>>, <<>>)
        ELSE IF Len(without_records) > 0
        THEN Raised(WithoutRecordsError, <<>>, <<>>, <<without_records[1]>>)
        ELSE Returned([i \in 1..Len(categories) |->
                           create_category_result(matching, categories, i)])

\* A rendered number: style ".2f" is whole.frac with two decimals, style
\* "int" the decimal digits of an int, style "float" the repr of a float
\* whose value is whole/frac, style "nan" the text nan.
Rendered(style, whole, frac) == [style |-> style, whole |-> whole, frac |-> frac]

\* format(number, ".2f"): rounded to hundredths
Format2f(number) ==
    IF ~IsNumber(number) THEN Rendered("nan", 0, 0)
    ELSE LET h == Round(Mul(number, PyInt(100))).n
         IN  Rendered(".2f", h \div 100, h % 100)

\* str(number)
Str(number) ==
    IF number.f THEN Rendered("float", number.n, number.d)
    ELSE Rendered("int", number.n, 0)

\* the groups of every category of the result, flattened
RECURSIVE AllGroupResults(_, _)
AllGroupResults(sr, i) ==
    IF i > Len(sr.categories) THEN <<>>
    ELSE sr.categories[i].groups \o AllGroupResults(sr, i + 1)

\* use_float deciding on the value of the earned points, not on their type
use_float_by_value(sr) ==
    \E i \in 1..Len(AllGroupResults(sr, 1)) :
        ~IsIntegral(GroupResult_earned_points(AllGroupResults(sr, 1)[i]))

\* any(isinstance(group.earned_points, float) for cat ... for group ...)
use_float(sr) ==
    \E i \in 1..Len(AllGroupResults(sr, 1)) :
        GroupResult_earned_points(AllGroupResults(sr, 1)[i]).f

\* fmt(number), useFloat being the use_float of the enclosing format_result
fmt(useFloat, number) == IF useFloat THEN Format2f(number) ELSE Str(number)

NoNumber == Rendered("", 0, 0)

\* one line of the report: its fixed text or kind, the name it shows and
\* the numbers it shows
Line(text, name, earned, max, percentage) ==
    [text |-> text, name |-> name, earned |-> earned, max |-> max,
     percentage |-> percentage]

\* the categories the report shows
shown_categories(sr, showAll) ==
    IF showAll THEN sr.categories
    ELSE SelectSeq(sr.categories, LAMBDA cat : ~EqZero(cat.category.points_multiplier))

\* display_category_summary counting all categories, hidden ones too
display_category_summary_all(sr, shown) == Len(sr.categories) > 1

display_category_summary(sr, shown) == Len(shown) > 1

\* append_group(group)
GroupLine(useFloat, gr) ==
    Line(" - {name}: {earned} out of {max} ({percentage}%)", gr.group.name,
         fmt(useFloat, GroupResult_earned_points(gr)),
         fmt(useFloat, GroupResult_max_points(gr)),
         Format2f(GroupResult_earned_points_percentage(gr)))

\* append_category(cat): the header, then one line per group
CategoryLines(useFloat, withSummary, cat) ==
    LET header ==
            IF withSummary
            THEN Line("{name}: {earned} out of {max} ({percentage}%)", cat.category.name,
                      fmt(useFloat, CategoryResult_earned_points(cat)),
                      fmt(useFloat, CategoryResult_max_points(cat)),
                      Format2f(CategoryResult_earned_points_percentage(cat)))
            ELSE Line("{name}:", cat.category.name, NoNumber, NoNumber, NoNumber)
    IN  <<header>> \o [j \in 1..Len(cat.groups) |-> GroupLine(useFloat, cat.groups[j])]

RECURSIVE ShownCategoryLines(_, _, _, _)
ShownCategoryLines(useFloat, withSummary, shown, i) ==
    IF i > Len(shown) THEN <<>>
    ELSE <<Line("", 0, NoNumber, NoNumber, NoNumber)>>
         \o CategoryLines(useFloat, withSummary, shown[i])
         \o ShownCategoryLines(useFloat, withSummary, shown, i + 1)

\* the lines of format_result once use_float and the shown categories are known
ReportLines(sr, useFloat, shown) ==
    << Line("Summary:", 0, NoNumber, NoNumber, NoNumber),
       Line("Points: {earned}", 0, fmt(useFloat, ScoringResult_earned_points(sr)),
            NoNumber, NoNumber),
       Line("   Max: {max}", 0, NoNumber, fmt(useFloat, ScoringResult_max_points(sr)),
            NoNumber),
       Line("Result: {percentage}%", 0, NoNumber, NoNumber,
            Format2f(ScoringResult_earned_points_percentage(sr))) >>
    \o IF display_category_summary(sr, shown)
       THEN ShownCategoryLines(useFloat, TRUE, shown, 1)
       ELSE ShownCategoryLines(useFloat, FALSE, shown, 1)

\* format_result(result, show_all)
format_result(sr, showAll) ==
    IF use_float(sr)
    THEN ReportLines(sr, TRUE, shown_categories(sr, showAll))
    ELSE ReportLines(sr, FALSE, shown_categories(sr, showAll))

----------------------------------------------------------------------------
(* The inputs explored *)

LabResultRecord(description, passed) ==
    [description |-> description, passed |-> passed, reason |-> ""]

CheckGroupSpec(name, type, pattern, points) ==
    [name |-> name, type |-> type, description_regex |-> pattern, points |-> points]

GroupCategorySpec(name, multiplier, groups) ==
    [name |-> name, points_multiplier |-> multiplier, groups |-> groups]

SeqsUpTo(S, n) == UNION {[1..k -> S] : k \in 0..n}

\* Shape family: raw configurations of any shape, valid or not, whose
\* category and group names are drawn from two names each.
Names == {1, 2}

ShapeGroups == {CheckGroupSpec(n, "each", <<"a">>, PyInt(1)) : n \in Names}

ShapeCategories ==
    {GroupCategorySpec(n, PyInt(1), gs) :
        n \in Names, gs \in SeqsUpTo(ShapeGroups, MaxGroups)}

ShapeConfigs == SeqsUpTo(ShapeCategories, MaxCategories)

ShapeRecordLists ==
    {<<>>, <<LabResultRecord(<<"a">>, TRUE)>>,
     <<LabResultRecord(<<"a">>, TRUE), LabResultRecord(<<"a">>, FALSE)>>}

\* Matching family: valid configurations (category i is named i, its j-th
\* group j) whose patterns overlap, and records some of which are equal,
\* matched by several groups or by none.
MatchPatterns == {<<"a">>, <<"a", "b">>, <<"b">>}

MatchDescriptions == {<<"a">>, <<"a", "b">>, <<"b">>}

MatchGroupLists(k) ==
    {[j \in 1..k |-> CheckGroupSpec(j, "each", pats[j], PyInt(1))] :
        pats \in [1..k -> MatchPatterns]}

\* the configurations with exactly r groups
RECURSIVE MatchConfigsOf(_)
MatchConfigsOf(r) ==
    IF r = 0 THEN {<<>>}
    ELSE UNION {
            {Append(c, GroupCategorySpec(Len(c) + 1, PyInt(1), gs)) :
                c \in MatchConfigsOf(r - k), gs \in MatchGroupLists(k)} :
            k \in 1..r}

MatchConfigs == UNION {MatchConfigsOf(r) : r \in 0..MaxMatchGroups}

MatchRecords ==
    {LabResultRecord(d, TRUE) : d \in MatchDescriptions}
    \cup {LabResultRecord(<<"a">>, FALSE)}

MatchRecordLists == SeqsUpTo(MatchRecords, MaxMatchRecords)

\* Formula family: one category with one group of every type and weight,
\* matched by n distinct records of which any k passed.
Digits == <<"1", "2", "3", "4", "5", "6", "7", "8", "9">>

PointValues == {PyInt(0), PyInt(1), PyInt(3), PyFloat(8, 5), PyFloat(5, 2)}

Multipliers == {PyInt(0), PyInt(1), PyInt(2), PyFloat(1, 2)}

FormulaConfigs ==
    {<<GroupCategorySpec(1, m, <<CheckGroupSpec(1, t, <<"a">>, pts)>>)>> :
        m \in Multipliers, t \in GroupType, pts \in PointValues}

\* records "a1", "a2", ...: the i-th has passed iff flags[i]
RecordsOf(prefix, flags) ==
    [i \in 1..Len(flags) |-> LabResultRecord(prefix \o <<Digits[i]>>, flags[i])]

FormulaRecordLists ==
    {RecordsOf(<<"a">>, flags) : flags \in SeqsUpTo(BOOLEAN, MaxGroupRecords)}

\* Tree family: valid configurations of every tree shape; the p-th group of
\* the configuration has the pattern "a"*p + "b" and is matched by its own
\* records, so that score returns a result.
TreeTypes == {"each", "linear", "all"}

TreeMultipliers == {PyInt(0), PyInt(1), PyFloat(1, 2)}

TreeFlags == {<<TRUE>>, <<TRUE, FALSE>>}

TreePattern(p) == [i \in 1..p |-> "a"] \o <<"b">>

\* the group lists of k groups, the first being the p-th of the configuration
TreeGroupLists(p, k) ==
    {[j \in 1..k |-> CheckGroupSpec(j, ts[j], TreePattern(p + j - 1), PyInt(3))] :
        ts \in [1..k -> TreeTypes]}

RECURSIVE TreeConfigsOf(_)
TreeConfigsOf(r) ==
    IF r = 0 THEN {<<>>}
    ELSE UNION {
            {Append(c, GroupCategorySpec(Len(c) + 1, m, gs)) :
                c \in TreeConfigsOf(r - k), gs \in TreeGroupLists(r - k + 1, k),
                m \in TreeMultipliers} :
            k \in 1..r}

TreeConfigs == UNION {TreeConfigsOf(r) : r \in 1..MaxTreeGroups}

RECURSIVE TreeRecordsFrom(_, _)
TreeRecordsFrom(flagsOf, p) ==
    IF p > Len(flagsOf) THEN <<>>
    ELSE RecordsOf(TreePattern(p), flagsOf[p]) \o TreeRecordsFrom(flagsOf, p + 1)

TreeRecordLists(categories) ==
    {TreeRecordsFrom(flagsOf, 1) :
        flagsOf \in [1..Len(ScoringConfig_groups(categories)) -> TreeFlags]}

----------------------------------------------------------------------------
(* The run: ScoringConfig(...), then score, then format_result *)

NoResult == Returned(<<>>)

InitRun ==
    /\ pc = "input"
    /\ error = ""
    /\ result = NoResult
    /\ show_all = FALSE
    /\ lines = <<>>

InitShape == config \in ShapeConfigs /\ records \in ShapeRecordLists /\ InitRun

InitMatch == config \in MatchConfigs /\ records \in MatchRecordLists /\ InitRun

InitFormula == config \in FormulaConfigs /\ records \in FormulaRecordLists /\ InitRun

InitTree == config \in TreeConfigs /\ records \in TreeRecordLists(config) /\ InitRun

\* ScoringConfig(categories=...): __post_init__ raises or the object exists
Construct ==
    /\ pc = "input"
    /\ error' = ScoringConfig_post_init(config)
    /\ pc' = IF error' = "" THEN "configured" ELSE "config_error"
    /\ UNCHANGED <<config, records, result, show_all, lines>>

\* score(config, records)
Score ==
    /\ pc = "configured"
    /\ result' = score(config, records)
    /\ error' = result'.raised
    /\ pc' = IF result'.raised = "" THEN "scored" ELSE "score_error"
    /\ UNCHANGED <<config, records, show_all, lines>>

\* format_result(result, show_all)
Format(showAll) ==
    /\ pc = "scored"
    /\ show_all' = showAll
    /\ lines' = format_result(result, showAll)
    /\ pc' = "formatted"
    /\ UNCHANGED <<config, records, error, result>>

Next ==
    \/ Construct
    \/ Score
    \/ \E showAll \in BOOLEAN : Format(showAll)

\* configurations of any shape, and the matching of overlapping patterns
Init == InitShape \/ InitMatch

Spec == Init /\ [][Next]_vars

\* the scoring formulas and the aggregation tree
InitPoints == InitFormula \/ InitTree

SpecPoints == InitPoints /\ [][Next]_vars

----------------------------------------------------------------------------
(* Vocabulary of the properties *)

Scored == pc \in {"scored", "formatted"}
ScoreCalled == pc \in {"scored", "score_error", "formatted"}

Groups == ScoringConfig_groups(config)

\* the groups whose pattern matches the record, in configuration order
MatchingGroups(record) == SelectSeq(Groups, LAMBDA g : matches(g, record))

\* the positions of the input records matched by the group
MatchedPositions(group) == {i \in 1..Len(records) : matches(group, records[i])}

\* the three kinds of mismatch between a configuration and the records
PositionsMatchingMultipleGroups ==
    {i \in 1..Len(records) : Len(MatchingGroups(records[i])) > 1}
PositionsWithoutGroup ==
    {i \in 1..Len(records) : Len(MatchingGroups(records[i])) = 0}
GroupsWithoutRecords == {p \in 1..Len(Groups) : MatchedPositions(Groups[p]) = {}}

Min(S) == CHOOSE x \in S : \A y \in S : x <= y

HasEqualRecords ==
    \E i, j \in 1..Len(records) : i < j /\ records[i] = records[j]

\* the three invariants of a Configuration
DistinctCategoryNames ==
    \A i, j \in 1..Len(config) : i # j => config[i].name # config[j].name
DistinctGroupNames ==
    \A c \in 1..Len(config) : \A i, j \in 1..Len(config[c].groups) :
        i # j => config[c].groups[i].name # config[c].groups[j].name
NoEmptyCategory == \A c \in 1..Len(config) : Len(config[c].groups) >= 1

ValidConfiguration == DistinctCategoryNames /\ DistinctGroupNames /\ NoEmptyCategory

----------------------------------------------------------------------------
(* Configuration construction *)

\* C5: constructing a Configuration succeeds iff category names are pairwise
\* distinct, group names are pairwise distinct within each category and no
\* category is empty; when it fails a ValueError is raised, nothing was
\* matched or scored, and score is only ever called on a valid configuration.
C5_ConstructionValidates ==
    /\ pc # "input" => (pc # "config_error" <=> ValidConfiguration)
    /\ pc = "config_error" => error # "" /\ result = NoResult /\ lines = <<>>
    /\ ScoreCalled => ValidConfiguration

\* a configuration that only breaks the third invariant was refused
C5_Witness ==
    /\ pc = "config_error"
    /\ DistinctCategoryNames /\ DistinctGroupNames /\ ~NoEmptyCategory
    /\ Len(config) = 2

----------------------------------------------------------------------------
(* Matching and the validation gate of score *)

\* C1: score raises the ValueError iff some record is matched by a number of
\* groups other than one or some group is matched by no record, also when
\* the list holds equal records; otherwise it returns a ScoringResult.
C1_FailsIffMismatch ==
    ScoreCalled =>
        (pc = "score_error" <=>
            \/ PositionsMatchingMultipleGroups # {}
            \/ PositionsWithoutGroup # {}
            \/ GroupsWithoutRecords # {})

\* the error the three checks, taken in their order, are to raise
ExpectedError ==
    IF PositionsMatchingMultipleGroups # {}
    THEN Raised(MultipleGroupsError, <<records[Min(PositionsMatchingMultipleGroups)]>>,
                MatchingGroups(records[Min(PositionsMatchingMultipleGroups)]), <<>>)
    ELSE IF PositionsWithoutGroup # {}
    THEN Raised(WithoutGroupError, <<records[Min(PositionsWithoutGroup)]>>, <<>>, <<>>)
    ELSE IF GroupsWithoutRecords # {}
    THEN Raised(WithoutRecordsError, <<>>, <<>>, <<Groups[Min(GroupsWithoutRecords)]>>)
    ELSE NoResult

\* C9: when score fails, the error is that of the first non-empty class
\* among records matched by several groups, records matched by none and
\* groups matched by no record; it names the first offender of the class
\* and, for a record matched by several groups, the groups that matched it.
C9_ErrorOfFirstClass == pc = "score_error" => result = ExpectedError

\* the group results of the result, flattened in result order
GroupResults == AllGroupResults(result, 1)

\* C10: a returned ScoringResult has one CategoryResult per category and
\* one GroupResult per group, in configuration order; every GroupResult
\* holds at least one record; every input record is held by exactly one
\* GroupResult, in input order; total_checks_count is the number of records.
C10_ResultShape ==
    Scored =>
        /\ Len(result.categories) = Len(config)
        /\ \A c \in 1..Len(config) :
              /\ result.categories[c].category.name = config[c].name
              /\ Len(result.categories[c].groups) = Len(config[c].groups)
              /\ \A j \in 1..Len(config[c].groups) :
                    /\ result.categories[c].groups[j].group.name
                           = config[c].groups[j].name
                    /\ result.categories[c].groups[j].group.description_regex
                           = config[c].groups[j].description_regex
        /\ \A p \in 1..Len(GroupResults) :
              /\ Len(GroupResults[p].records) >= 1
              /\ GroupResults[p].records
                     = SelectSeq(records, LAMBDA r : matches(GroupResults[p].group, r))
        /\ \A i \in 1..Len(records) :
              Cardinality({p \in 1..Len(GroupResults) :
                  \E k \in 1..Len(GroupResults[p].records) :
                      GroupResults[p].records[k] = records[i]}) = 1
        /\ ScoringResult_total_checks_count(result) = Len(records)

\* a result of two categories, one of whose groups holds two records
C10_Witness ==
    /\ pc = "scored"
    /\ Len(result.categories) = 2
    /\ Len(records) = 3
    /\ \E p \in 1..Len(GroupResults) : Len(GroupResults[p].records) = 2

----------------------------------------------------------------------------
(* The scoring formulas *)

\* w = rule.points x category.multiplier, n and k of a GroupResult
Weight(gr) == Mul(gr.group.points, gr.group.category.points_multiplier)
N(gr) == Len(gr.records)
K(gr) == Cardinality({i \in 1..Len(gr.records) : gr.records[i].passed})

\* C2: for each of the six types, every weight w >= 0 (integral or not) and
\* every n >= 1 and 0 <= k <= n, the earned points are at most the maximum
\* points.
C2_EarnedAtMostMax ==
    Scored =>
        \A p \in 1..Len(GroupResults) :
            NumLeq(GroupResult_earned_points(GroupResults[p]),
                   GroupResult_max_points(GroupResults[p]))

\* C7 as stated: for ALL, earned = w iff k = n, and earned = 0 otherwise;
\* max = w.
C7_AllEarnsWeightIffAllPassed ==
    Scored =>
        \A p \in 1..Len(GroupResults) :
            LET gr == GroupResults[p]
            IN  gr.group.type = "all" =>
                    /\ NumEq(GroupResult_earned_points(gr), Weight(gr)) <=> K(gr) = N(gr)
                    /\ K(gr) # N(gr) => EqZero(GroupResult_earned_points(gr))
                    /\ NumEq(GroupResult_max_points(gr), Weight(gr))

\* C7 (amended): for ALL, earned = w when k = n and earned = 0 otherwise, so
\* that earned = w iff k = n whenever w > 0 (with w = 0 earned equals w for
\* every k); max = w.
C7_AllEarnsWeightWhenAllPassed ==
    Scored =>
        \A p \in 1..Len(GroupResults) :
            LET gr == GroupResults[p]
            IN  gr.group.type = "all" =>
                    /\ K(gr) = N(gr) => GroupResult_earned_points(gr) = Weight(gr)
                    /\ K(gr) # N(gr) => GroupResult_earned_points(gr) = PyInt(0)
                    /\ ~EqZero(Weight(gr)) =>
                          (NumEq(GroupResult_earned_points(gr), Weight(gr))
                               <=> K(gr) = N(gr))
                    /\ GroupResult_max_points(gr) = Weight(gr)

\* an ALL group of positive weight with three records, two of which passed
C7_Witness ==
    /\ pc = "scored"
    /\ \E p \in 1..Len(GroupResults) :
          /\ GroupResults[p].group.type = "all"
          /\ N(GroupResults[p]) = 3 /\ K(GroupResults[p]) = 2
          /\ ~EqZero(Weight(GroupResults[p]))
          /\ EqZero(GroupResult_earned_points(GroupResults[p]))

----------------------------------------------------------------------------
(* The aggregation tree *)

\* the sum of f over 1..n, taken from the right
RECURSIVE TotalOf(_, _)
TotalOf(f(_), n) == IF n = 0 THEN 0 ELSE f(n) + TotalOf(f, n - 1)

\* numerator of the sum of the numbers xs over the denominator DenOf(xs)
RECURSIVE DenOf(_, _)
DenOf(xs, n) == IF n = 0 THEN 1 ELSE xs[n].d * DenOf(xs, n - 1)

RECURSIVE NumOf(_, _)
NumOf(xs, n) ==
    IF n = 0 THEN 0 ELSE xs[n].n * DenOf(xs, n - 1) + NumOf(xs, n - 1) * xs[n].d

\* x is the sum of the numbers xs
IsSumOf(x, xs) ==
    /\ IsNumber(x)
    /\ x.n * DenOf(xs, Len(xs)) = NumOf(xs, Len(xs)) * x.d
    /\ x.f = (\E i \in 1..Len(xs) : xs[i].f)

\* C3: the counts and points of a CategoryResult are the sums of those of
\* its GroupResults, those of the ScoringResult the sums of those of its
\* CategoryResults, and at every level failed = total - passed.
C3_Aggregation ==
    Scored =>
        /\ \A c \in 1..Len(result.categories) :
              LET cr == result.categories[c]
                  n == Len(cr.groups)
              IN  /\ CategoryResult_total_checks_count(cr)
                        = TotalOf(LAMBDA j : Len(cr.groups[j].records), n)
                  /\ CategoryResult_passed_checks_count(cr)
                        = TotalOf(LAMBDA j : K(cr.groups[j]), n)
                  /\ CategoryResult_failed_check_count(cr)
                        = TotalOf(LAMBDA j : N(cr.groups[j]) - K(cr.groups[j]), n)
                  /\ CategoryResult_failed_check_count(cr)
                        = CategoryResult_total_checks_count(cr)
                              - CategoryResult_passed_checks_count(cr)
                  /\ IsSumOf(CategoryResult_earned_points(cr),
                             [j \in 1..n |-> GroupResult_earned_points(cr.groups[j])])
                  /\ IsSumOf(CategoryResult_max_points(cr),
                             [j \in 1..n |-> GroupResult_max_points(cr.groups[j])])
                  /\ \A j \in 1..n :
                        GroupResult_failed_check_count(cr.groups[j])
                            = N(cr.groups[j]) - K(cr.groups[j])
        /\ LET m == Len(result.categories)
               cat(c) == result.categories[c]
           IN  /\ ScoringResult_total_checks_count(result)
                     = TotalOf(LAMBDA c : CategoryResult_total_checks_count(cat(c)), m)
               /\ ScoringResult_passed_checks_count(result)
                     = TotalOf(LAMBDA c : CategoryResult_passed_checks_count(cat(c)), m)
               /\ ScoringResult_failed_check_count(result)
                     = TotalOf(LAMBDA c : CategoryResult_failed_check_count(cat(c)), m)
               /\ ScoringResult_failed_check_count(result)
                     = ScoringResult_total_checks_count(result)
                           - ScoringResult_passed_checks_count(result)
               /\ IsSumOf(ScoringResult_earned_points(result),
                          [c \in 1..m |-> CategoryResult_earned_points(cat(c))])
               /\ IsSumOf(ScoringResult_max_points(result),
                          [c \in 1..m |-> CategoryResult_max_points(cat(c))])

\* two categories, each with failed and passed checks and points of its own
C3_Witness ==
    /\ pc = "scored"
    /\ Len(result.categories) = 2
    /\ \A c \in 1..2 :
          /\ CategoryResult_failed_check_count(result.categories[c]) = 1
          /\ CategoryResult_passed_checks_count(result.categories[c]) = 1
          /\ ~EqZero(CategoryResult_earned_points(result.categories[c]))
    /\ ~IsIntegral(ScoringResult_earned_points(result))

\* pct is earned / max x 100
IsPercentageOf(pct, earned, max) ==
    /\ IsNumber(pct)
    /\ pct.n * max.n * earned.d = 100 * earned.n * max.d * pct.d

\* pct is the sentinel iff max is 0, and else the percentage of earned in max
PercentageLaw(pct, earned, max) ==
    /\ pct = NaN <=> EqZero(max)
    /\ ~EqZero(max) => IsPercentageOf(pct, earned, max)

\* C4: at the three levels earned_points_percentage is NaN iff max_points is
\* 0 and is earned / max x 100 otherwise; a category whose multiplier is 0 or
\* whose groups all have 0 points yields NaN.
C4_PercentageSentinel ==
    Scored =>
        /\ \A p \in 1..Len(GroupResults) :
              PercentageLaw(GroupResult_earned_points_percentage(GroupResults[p]),
                            GroupResult_earned_points(GroupResults[p]),
                            GroupResult_max_points(GroupResults[p]))
        /\ \A c \in 1..Len(result.categories) :
              LET cr == result.categories[c]
              IN  /\ PercentageLaw(CategoryResult_earned_points_percentage(cr),
                                   CategoryResult_earned_points(cr),
                                   CategoryResult_max_points(cr))
                  /\ (\/ EqZero(config[c].points_multiplier)
                      \/ \A j \in 1..Len(config[c].groups) :
                             EqZero(config[c].groups[j].points))
                        => CategoryResult_earned_points_percentage(cr) = NaN
        /\ PercentageLaw(ScoringResult_earned_points_percentage(result),
                         ScoringResult_earned_points(result),
                         ScoringResult_max_points(result))

\* a category of multiplier 0 has the sentinel while the result, whose other
\* category earned nothing of its maximum, has a percentage of 0
C4_Witness ==
    /\ pc = "scored"
    /\ \E c \in 1..Len(result.categories) :
          /\ EqZero(config[c].points_multiplier)
          /\ CategoryResult_earned_points_percentage(result.categories[c]) = NaN
    /\ EqZero(ScoringResult_earned_points_percentage(result))
    /\ ~EqZero(ScoringResult_max_points(result))

----------------------------------------------------------------------------
(* The report *)

\* the points numbers of the report (the percentages are not among them)
EarnedNumbers == {lines[i].earned : i \in 1..Len(lines)} \ {NoNumber}
MaxNumbers == {lines[i].max : i \in 1..Len(lines)} \ {NoNumber}
PointsNumbers == EarnedNumbers \cup MaxNumbers

SomeEarnedNonIntegral ==
    \E p \in 1..Len(GroupResults) : ~IsIntegral(GroupResult_earned_points(GroupResults[p]))

SomeEarnedFloat ==
    \E p \in 1..Len(GroupResults) : GroupResult_earned_points(GroupResults[p]).f

\* C6 as stated: every points number of the report has two decimals iff
\* some GroupResult, hidden or not, has earned points of non-integral
\* value; otherwise every points number is a plain integer.
C6_TwoDecimalsIffNonIntegral ==
    pc = "formatted" =>
        /\ SomeEarnedNonIntegral => \A x \in PointsNumbers : x.style = ".2f"
        /\ ~SomeEarnedNonIntegral => \A x \in PointsNumbers : x.style = "int"

\* C6 (amended): every points number of the report has two decimals iff
\* some GroupResult, hidden or not, has earned points that are a float,
\* whatever their value, which is the case whenever the value is not
\* integral; otherwise every number is rendered by str: the earned points
\* as plain integers, a maximum as a plain integer unless it is a float.
C6_TwoDecimalsIffFloat ==
    pc = "formatted" =>
        /\ SomeEarnedFloat => \A x \in PointsNumbers : x.style = ".2f"
        /\ ~SomeEarnedFloat =>
              /\ \A x \in EarnedNumbers : x.style = "int"
              /\ \A x \in MaxNumbers : x.style \in {"int", "float"}
              /\ lines[3].max.style = "float" <=> ScoringResult_max_points(result).f
        /\ SomeEarnedNonIntegral => SomeEarnedFloat

\* only a group of a hidden category has float earned points, all earned
\* points are integral in value, and the report has two decimals
C6_Witness ==
    /\ pc = "formatted"
    /\ ~show_all
    /\ ~SomeEarnedNonIntegral
    /\ Len(config) = 2
    /\ \E p \in 1..Len(GroupResults) :
          /\ GroupResults[p].group.type = "linear"
          /\ GroupResult_earned_points(GroupResults[p]).f
          /\ EqZero(GroupResults[p].group.category.points_multiplier)
    /\ \A p \in 1..Len(GroupResults) :
          GroupResult_earned_points(GroupResults[p]).f
              => EqZero(GroupResults[p].group.category.points_multiplier)
    /\ lines[2].earned.style = ".2f"

\* the categories to show, by position: all of them on show_all, else those
\* whose multiplier is not 0
ShownPositions ==
    SelectSeq([c \in 1..Len(config) |-> c],
              LAMBDA c : show_all \/ ~EqZero(config[c].points_multiplier))

HeaderText ==
    IF Len(ShownPositions) > 1 THEN "{name}: {earned} out of {max} ({percentage}%)"
    ELSE "{name}:"

\* text and name of the lines a shown category is to give
RECURSIVE ExpectedCategoryLines(_)
ExpectedCategoryLines(k) ==
    IF k > Len(ShownPositions) THEN <<>>
    ELSE LET c == ShownPositions[k]
         IN  << <<"", 0>>, <<HeaderText, config[c].name>> >>
             \o [j \in 1..Len(config[c].groups) |->
                    <<" - {name}: {earned} out of {max} ({percentage}%)",
                      config[c].groups[j].name>>]
             \o ExpectedCategoryLines(k + 1)

\* C8: the report shows every category on show_all and else the categories
\* whose multiplier is not 0, in configuration order; a category header
\* carries the earned / max / percentage summary iff more than one category
\* is shown; each header is followed by one line per group of the category.
C8_ShownCategories ==
    pc = "formatted" =>
        /\ [i \in 1..(Len(lines) - 4) |-> <<lines[i + 4].text, lines[i + 4].name>>]
               = ExpectedCategoryLines(1)
        /\ \A i \in 5..Len(lines) :
              /\ lines[i].text = "{name}:"
                    => lines[i].earned = NoNumber /\ lines[i].max = NoNumber
                           /\ lines[i].percentage = NoNumber
              /\ lines[i].text = "{name}: {earned} out of {max} ({percentage}%)"
                    => lines[i].earned # NoNumber /\ lines[i].max # NoNumber
                           /\ lines[i].percentage # NoNumber

\* of two categories the one of multiplier 0 is hidden, and the header of
\* the other carries no summary
C8_Witness ==
    /\ pc = "formatted"
    /\ ~show_all
    /\ Len(config) = 2
    /\ EqZero(config[1].points_multiplier)
    /\ ~EqZero(config[2].points_multiplier)
    /\ Len(lines) = 6 + Len(config[2].groups)
    /\ lines[6].text = "{name}:"
    /\ lines[6].name = config[2].name

====
